---------------------------- MODULE Spec2Model ----------------------------
(***************************************************************************)
(* Verification model of the fuel-tracker application:                     *)
(*   - VinService (services/vinService.ts): isValidVinFormat, decodeVin,   *)
(*     directNhtsaCall, findResult, clearCache and the client-side Map     *)
(*     cache with its setTimeout evictions;                                *)
(*   - the backend route POST /make-server-218dc5b7/decode-vin             *)
(*     (supabase/functions/server/index.tsx) with its kv store;            *)
(*   - the Scanner component (components/Scanner.tsx): camera start and    *)
(*     stop, the sampling interval, the frame heuristics, the result       *)
(*     dispatcher, manual entry;                                           *)
(*   - the admin routes of the backend with their role test.               *)
(*                                                                         *)
(* Strings that the code inspects character by character (VINs) are        *)
(* sequences of one-character strings.  JavaScript's undefined and null    *)
(* are the markers Undefined and Null.                                     *)
(***************************************************************************)
EXTENDS Integers, Sequences, FiniteSets, TLC

VARIABLES
    cache,        \* VinService.cache : Map<string, VehicleInfo>  (partial function)
    timers,       \* pending setTimeout callbacks of decodeVin: [key, remaining]
    age,          \* minutes since the entry of a key was last written (saturating)
    kv,           \* backend kv store, keys vehicle:<VIN>         (partial function)
    call,         \* the decodeVin calls: position, arguments, promise, requests made
    fmtInput,     \* input string of the validator run
    fmtDone,      \* the validator has run
    fmtResult,    \* value isValidVinFormat returned
    scanner,      \* the Scanner component: props, state, refs, streams, intervals, awaits
    scanLog,      \* what the Scanner handed on in the current session
    store,        \* backend kv store: profiles, fuel entries, vehicles
    reqs,         \* the admin requests: position, arguments, answer
    synth,        \* one run of a frame heuristic: its random draws and its payload
    srv,          \* the backend decode route alone: ages of its records, its request
    screen,       \* the VehicleIdentification component: state and decodes in flight
    fuel          \* the fuel-entry requests: position, caller, entry id, answer

vinVars == <<cache, timers, age, kv, call>>
fmtVars == <<fmtInput, fmtDone, fmtResult>>
scanVars  == <<scanner, scanLog>>
adminVars == <<store, reqs>>
extVars == <<srv, screen, fuel>>
vars    == <<vinVars, fmtVars, scanVars, adminVars, synth, extVars>>

Undefined == "undefined"
Null      == "null"

(***************************************************************************)
(* Characters                                                              *)
(***************************************************************************)
UpperLetters == <<"A","B","C","D","E","F","G","H","I","J","K","L","M",
                  "N","O","P","Q","R","S","T","U","V","W","X","Y","Z">>
LowerLetters == <<"a","b","c","d","e","f","g","h","i","j","k","l","m",
                  "n","o","p","q","r","s","t","u","v","w","x","y","z">>
DigitChars   == <<"0","1","2","3","4","5","6","7","8","9">>

\* Non-ASCII characters whose upper-case form is ASCII (Unicode SpecialCasing):
\* U+00DF sharp s -> "SS", U+017F long s -> "S", U+0131 dotless i -> "I".
SharpS   == "sharp-s"
LongS    == "long-s"
DotlessI == "dotless-i"

Range(s) == {s[i] : i \in DOMAIN s}

IndexOf(s, c) == CHOOSE i \in DOMAIN s : s[i] = c

\* UTF-16 code unit of a character of the model's alphabet.
CharCode(c) ==
    IF c \in Range(UpperLetters) THEN 64 + IndexOf(UpperLetters, c)
    ELSE IF c \in Range(LowerLetters) THEN 96 + IndexOf(LowerLetters, c)
    ELSE IF c \in Range(DigitChars) THEN 47 + IndexOf(DigitChars, c)
    ELSE IF c = " " THEN 32
    ELSE IF c = "-" THEN 45
    ELSE IF c = SharpS THEN 223
    ELSE IF c = DotlessI THEN 305
    ELSE 383

\* String.prototype.toUpperCase on one character: a string of 1 or 2 characters.
CharToUpperCase(c) ==
    IF c \in Range(LowerLetters) THEN <<UpperLetters[IndexOf(LowerLetters, c)]>>
    ELSE IF c = SharpS THEN <<"S", "S">>
    ELSE IF c = LongS THEN <<"S">>
    ELSE IF c = DotlessI THEN <<"I">>
    ELSE <<c>>

RECURSIVE toUpperCase(_)
toUpperCase(s) ==
    IF s = <<>> THEN <<>>
    ELSE CharToUpperCase(Head(s)) \o toUpperCase(Tail(s))

InCharRange(c, lo, hi) == CharCode(lo) <= CharCode(c) /\ CharCode(c) <= CharCode(hi)

VinPatternClassNoQ(c) ==
    \/ InCharRange(c, "A", "H")
    \/ InCharRange(c, "J", "N")
    \/ InCharRange(c, "P", "Z")
    \/ InCharRange(c, "0", "9")

\* The character class [A-HJ-NPR-Z0-9] of vinPattern.
VinPatternClass(c) ==
    \/ InCharRange(c, "A", "H")
    \/ InCharRange(c, "J", "N")
    \/ c = "P"
    \/ InCharRange(c, "R", "Z")
    \/ InCharRange(c, "0", "9")

VinLength == 17

\* /^[A-HJ-NPR-Z0-9]{17}$/.test(s)
VinPatternTest(s) ==
    /\ Len(s) = VinLength
    /\ \A i \in 1..Len(s) : VinPatternClass(s[i])

isValidVinFormatLengthOnly(vin) == Len(toUpperCase(vin)) = VinLength

\* Lines 365-369.
isValidVinFormat(vin) == VinPatternTest(toUpperCase(vin))


(***************************************************************************)
(* VehicleInfo records.  Of the optional descriptive fields, all filled by *)
(* the same findResult lookup, trim stands for the fifteen; the timestamp  *)
(* cached_at is not represented.                                           *)
(***************************************************************************)
MsgInvalidFormat   == "Invalid VIN format"
MsgDecodeFailed    == "Failed to decode VIN"
MsgNotFoundClient  == "Vehicle information not found"
MsgNotFoundBackend == "Vehicle information not found for this VIN"
MsgBackendNhtsa    == "Failed to decode VIN via NHTSA API"

\* JavaScript truthiness of a string-or-null-or-undefined value.
Truthy(x) == x \notin {"", Null, Undefined}

\* A fetch() of the NHTSA endpoint ends in one of three ways: the promise rejects
\* ("throw"), it resolves with a non-2xx status ("notok"), or it resolves with a
\* 2xx status and a JSON body ("ok").  A body is [hasResults, Results], Results a
\* list of {Variable, Value} pairs whose Value is a string or null.
DataFull ==
    [hasResults |-> TRUE,
     Results |-> << [Variable |-> "Model Year", Value |-> "2010"],
                    [Variable |-> "Make",       Value |-> "Honda"],
                    [Variable |-> "Model",      Value |-> "Civic"],
                    [Variable |-> "Trim",       Value |-> "LX"] >>]
DataNoModel ==
    [hasResults |-> TRUE,
     Results |-> << [Variable |-> "Model Year", Value |-> "2010"],
                    [Variable |-> "Make",       Value |-> "Honda"],
                    [Variable |-> "Model",      Value |-> Null] >>]
DataNoResults == [hasResults |-> FALSE, Results |-> <<>>]

RegistryBodies == {DataFull, DataNoModel, DataNoResults}

NhtsaResponses ==
    {[kind |-> "throw", data |-> DataNoResults],
     [kind |-> "notok", data |-> DataNoResults]}
    \cup {[kind |-> "ok", data |-> d] : d \in RegistryBodies}

\* data.Results || []
ResultsOf(data) == IF data.hasResults THEN data.Results ELSE <<>>

\* results.find(r => r.Variable === variableName); result?.Value || ''
findResult(results, variableName) ==
    LET hits == {i \in DOMAIN results : results[i].Variable = variableName}
    IN  IF hits = {} THEN ""
        ELSE LET v == results[CHOOSE i \in hits : \A j \in hits : i <= j].Value
             IN  IF Truthy(v) THEN v ELSE ""

\* decodeVin, lines 234-241: the record returned for a malformed string.
InvalidFormatInfo(vin) ==
    [vin |-> toUpperCase(vin), year |-> "", make |-> "", model |-> "",
     trim |-> Undefined, valid |-> FALSE, error |-> MsgInvalidFormat]

\* decodeVin, lines 292-299.
ErrorInfo(normalizedVin) ==
    [vin |-> normalizedVin, year |-> "", make |-> "", model |-> "",
     trim |-> Undefined, valid |-> FALSE, error |-> MsgDecodeFailed]

NhtsaVehicleInfoYearMake(vin, data) ==
    LET results == ResultsOf(data)
        year    == findResult(results, "Model Year")
        make    == findResult(results, "Make")
        valid   == Truthy(year) /\ Truthy(make)
    IN  [vin   |-> vin,
         year  |-> year,
         make  |-> make,
         model |-> findResult(results, "Model"),
         trim  |-> findResult(results, "Trim"),
         valid |-> valid,
         error |-> IF valid THEN Undefined ELSE MsgNotFoundClient]

\* directNhtsaCall, lines 319-348: the record built from a 2xx registry body.
NhtsaVehicleInfo(vin, data) ==
    LET results == ResultsOf(data)
        year    == findResult(results, "Model Year")
        make    == findResult(results, "Make")
        model   == findResult(results, "Model")
        valid   == Truthy(year) /\ Truthy(make) /\ Truthy(model)
    IN  [vin   |-> vin,
         year  |-> year,
         make  |-> make,
         model |-> model,
         trim  |-> findResult(results, "Trim"),
         valid |-> valid,
         error |-> IF valid THEN Undefined ELSE MsgNotFoundClient]

\* Backend route decode-vin, lines 498-538: vehicleData built from a 2xx body.
BackendVehicleData(normalizedVin, data) ==
    LET results == ResultsOf(data)
        year    == findResult(results, "Model Year")
        make    == findResult(results, "Make")
        model   == findResult(results, "Model")
        hasRequiredData == Truthy(year) /\ Truthy(make) /\ Truthy(model)
    IN  [vin   |-> normalizedVin,
         year  |-> year,
         make  |-> make,
         model |-> model,
         trim  |-> findResult(results, "Trim"),
         valid |-> hasRequiredData,
         error |-> IF hasRequiredData THEN Null ELSE MsgNotFoundBackend]

\* Backend route decode-vin, lines 548-556: errorResponse.
BackendErrorResponse(normalizedVin) ==
    [vin |-> normalizedVin, year |-> "", make |-> "", model |-> "",
     trim |-> Undefined, valid |-> FALSE, error |-> MsgBackendNhtsa]

(***************************************************************************)
(* Map operations (client cache and backend kv store are partial functions)*)
(***************************************************************************)
EmptyMap == [k \in {} |-> k]
MapHas(m, k) == k \in DOMAIN m
MapSet(m, k, v) == [x \in DOMAIN m \cup {k} |-> IF x = k THEN v ELSE m[x]]
MapDelete(m, k) == [x \in DOMAIN m \ {k} |-> m[x]]

(***************************************************************************)
(* Inputs and bounds                                                       *)
(***************************************************************************)
NumCalls == 2          \* decodeVin calls that may overlap
MaxTimers == 1         \* pending eviction timers

Calls == 1..NumCalls

VinA      == <<"1","H","G","B","H","4","1","J","X","M","N","1","0","9","1","8","6">>
VinALower == <<"1","h","g","b","h","4","1","j","x","m","n","1","0","9","1","8","6">>
VinWithO  == <<"1","H","G","B","H","4","1","J","X","M","N","1","0","9","1","O","6">>

VinB      == <<"2","F","M","D","K","3","G","C","4","D","B","A","1","2","3","4","5">>

VinInputs == {VinA, VinALower, VinWithO}

\* Two well-formed VINs with different cache keys.
TwoVinInputs == {VinA, VinB}

ValidToken  == "jwt-valid"
TokenInputs == {Undefined, ValidToken}

\* vin.toUpperCase() and isValidVinFormat(vin) of every input, computed once.
Normalized == [v \in VinInputs \cup TwoVinInputs \cup {<<>>} |-> toUpperCase(v)]
FormatOk   == [v \in VinInputs \cup TwoVinInputs \cup {<<>>} |-> isValidVinFormat(v)]

\* Every key decodeVin can compute from its inputs.
Keys == {Normalized[v] : v \in VinInputs \cup TwoVinInputs}

\* setTimeout(..., 5 * 60 * 1000): the delay in minutes.
RetentionMinutes == 5

(***************************************************************************)
(* A decodeVin call.  pc is the await it is suspended at:                  *)
(*   "backend"        fetch of the backend proxy, line 257 (request not    *)
(*                    yet handled by the backend)                          *)
(*   "upstream"       same fetch, the backend awaiting the registry        *)
(*   "nhtsa"          directNhtsaCall awaited in the try block, line 281   *)
(*   "nhtsaFallback"  directNhtsaCall awaited in the catch block, line 289 *)
(*   "done"           the promise has settled                              *)
(* backendReqs, nhtsaReqs count the requests the call has issued;          *)
(* backendResp is the HTTP status its backend request ended with (0: not   *)
(* ended, -1: the fetch rejected) and nhtsaResp the registry's answer to   *)
(* its own request.  Only                                                  *)
(* the call that settled last keeps its record; earlier settled calls are  *)
(* forgotten (they are observations, not state of the program).            *)
(***************************************************************************)
IdleCall ==
    [pc |-> "idle", vin |-> <<>>, token |-> Undefined, outcome |-> "pending",
     result |-> <<>>, backendReqs |-> 0, nhtsaReqs |-> 0, backendResp |-> 0,
     nhtsaResp |-> <<>>]

\* Call p goes on to its next await.
Proceed(p, c) == call' = [call EXCEPT ![p] = c]

\* Call p settles.
Settle(p, c) ==
    call' = [q \in Calls |->
               IF q = p THEN c
               ELSE IF call[q].pc = "done" THEN IdleCall
               ELSE call[q]]

\* The promise of call p resolves to rec.
Resolve(p, c, rec) ==
    Settle(p, [c EXCEPT !.pc = "done", !.outcome = "resolved", !.result = <<rec>>])

\* The promise of call p rejects.
Reject(p, c) ==
    Settle(p, [c EXCEPT !.pc = "done", !.outcome = "rejected"])

(***************************************************************************)
(* VinService.decodeVin                                                    *)
(***************************************************************************)
CacheGetNever(c, key) == <<>>

\* this.cache.get(normalizedVin), tested by `if (cached)`: <<>> when absent.
CacheGet(c, key) == IF MapHas(c, key) THEN <<c[key]>> ELSE <<>>

HasTokenAlways(accessToken) == TRUE

\* `if (accessToken)` of lines 254 and 287.
HasToken(accessToken) == Truthy(accessToken)

\* this.cache.set dropping every other entry (mutation of CacheSet).
CacheSetAlone(key, rec) ==
    /\ cache' = MapSet(EmptyMap, key, rec)
    /\ age' = [age EXCEPT ![key] = 0]

\* this.cache.set(key, rec)
CacheSet(key, rec) ==
    /\ cache' = MapSet(cache, key, rec)
    /\ age' = [age EXCEPT ![key] = 0]

\* Lines 231-282 up to the first await: format check, cache check, first fetch.
decodeVin(p, vin, accessToken) ==
    /\ call[p].pc \in {"idle", "done"}
    /\ UNCHANGED <<cache, age, timers, kv>>
    /\ LET fresh == [IdleCall EXCEPT !.vin = vin, !.token = accessToken]
       IN  IF ~FormatOk[vin]
           THEN Resolve(p, fresh, InvalidFormatInfo(vin))
           ELSE LET cached == CacheGet(cache, Normalized[vin])
                IN  IF cached # <<>>
                    THEN Resolve(p, fresh, cached[1])
                    ELSE IF HasToken(accessToken)
                    THEN Proceed(p, [fresh EXCEPT !.pc = "backend", !.backendReqs = 1])
                    ELSE Proceed(p, [fresh EXCEPT !.pc = "nhtsa", !.nhtsaReqs = 1])

\* setTimeout(() => this.cache.delete(key), 5 * 60 * 1000).  At most MaxTimers
\* timers are pending, no two of them equal.
SetEvictionTimer(key) ==
    /\ Cardinality(timers) < MaxTimers
    /\ [key |-> key, remaining |-> RetentionMinutes] \notin timers
    /\ timers' = timers \cup {[key |-> key, remaining |-> RetentionMinutes]}

CatchBlockNoFallback(p, c) ==
    /\ SetEvictionTimer(Normalized[c.vin])
    /\ CacheSet(Normalized[c.vin], ErrorInfo(Normalized[c.vin]))
    /\ Resolve(p, c, ErrorInfo(Normalized[c.vin]))

\* The catch block of decodeVin, lines 283-306, entered with call p's error (c is
\* the call's record).  With a token it awaits directNhtsaCall (line 289);
\* without one it stores errorInfo and schedules its eviction.
CatchBlock(p, c) ==
    IF HasToken(c.token)
    THEN /\ Proceed(p, [c EXCEPT !.pc = "nhtsaFallback", !.nhtsaReqs = @ + 1])
         /\ UNCHANGED <<cache, age, timers>>
    ELSE /\ SetEvictionTimer(Normalized[c.vin])
         /\ CacheSet(Normalized[c.vin], ErrorInfo(Normalized[c.vin]))
         /\ Resolve(p, c, ErrorInfo(Normalized[c.vin]))

\* Lines 269-278: the continuation of decodeVin after the backend's response.
OnBackendResponse(p, status, body) ==
    LET c == [call[p] EXCEPT !.backendResp = status]
    IN  IF 200 <= status /\ status <= 299
        THEN /\ CacheSet(Normalized[c.vin], body)
             /\ Resolve(p, c, body)
             /\ UNCHANGED timers
        ELSE CatchBlock(p, c)

\* The fetch of line 257 rejects: the request never reached the backend.
BackendFetchThrows(p) ==
    /\ call[p].pc = "backend"
    /\ CatchBlock(p, [call[p] EXCEPT !.backendResp = -1])
    /\ UNCHANGED kv

(***************************************************************************)
(* Backend route POST /make-server-218dc5b7/decode-vin                     *)
(***************************************************************************)
\* vinPattern.test(vin.toUpperCase()) of line 470 on every VIN a request can
\* carry, computed once.
VinPatternTested == [k \in Keys \cup {<<>>} |-> VinPatternTest(toUpperCase(k))]

\* requireAuth, lines 109-122: the status it answers with, 0 when it calls
\* next().  tokenOk: supabase.auth.getUser accepts the token.
requireAuth(accessToken, tokenOk) ==
    IF ~Truthy(accessToken) THEN 401
    ELSE IF ~tokenOk THEN 401
    ELSE 0

\* Lines 460-484: the handler up to its first await of the upstream registry.
\* The answer is [status, body]; status 0 means the handler goes on to fetch.
\* storeFails: kv.get throws, caught by the outer catch (lines 563-566).
BackendBeforeFetch(accessToken, tokenOk, vin, storeFails) ==
    IF requireAuth(accessToken, tokenOk) # 0
    THEN [status |-> requireAuth(accessToken, tokenOk), body |-> BackendErrorResponse(vin)]
    ELSE IF vin = <<>>
    THEN [status |-> 400, body |-> BackendErrorResponse(vin)]
    ELSE IF ~VinPatternTested[vin]
    THEN [status |-> 400, body |-> BackendErrorResponse(vin)]
    ELSE IF storeFails
    THEN [status |-> 500, body |-> BackendErrorResponse(vin)]
    ELSE IF MapHas(kv, vin)
    THEN [status |-> 200, body |-> kv[vin]]
    ELSE [status |-> 0, body |-> BackendErrorResponse(vin)]

\* Lines 488-562: the handler after the upstream registry's answer r.
BackendAfterFetch(normalizedVin, r) ==
    IF r.kind = "ok"
    THEN [status |-> 200, body |-> BackendVehicleData(normalizedVin, r.data)]
    ELSE [status |-> 500, body |-> BackendErrorResponse(normalizedVin)]

\* The backend receives call p's request and answers it or turns to the registry.
BackendHandle(p) ==
    /\ call[p].pc = "backend"
    /\ \E tokenOk \in BOOLEAN, storeFails \in BOOLEAN :
         LET answer == BackendBeforeFetch(call[p].token, tokenOk,
                                          Normalized[call[p].vin], storeFails)
         IN  IF answer.status = 0
             THEN /\ Proceed(p, [call[p] EXCEPT !.pc = "upstream"])
                  /\ UNCHANGED <<cache, age, timers>>
             ELSE OnBackendResponse(p, answer.status, answer.body)
    /\ UNCHANGED kv

\* The registry answers the backend; the backend stores the record (kv.set of
\* line 541 or 559) and answers call p.  delivered = FALSE: the answer is lost
\* and the client's fetch rejects.
BackendUpstream(p) ==
    /\ call[p].pc = "upstream"
    /\ \E r \in NhtsaResponses, delivered \in BOOLEAN :
         LET answer == BackendAfterFetch(Normalized[call[p].vin], r)
         IN  /\ kv' = MapSet(kv, Normalized[call[p].vin], answer.body)
             /\ IF delivered
                THEN OnBackendResponse(p, answer.status, answer.body)
                ELSE CatchBlock(p, [call[p] EXCEPT !.backendResp = -1])

(***************************************************************************)
(* VinService.directNhtsaCall                                              *)
(***************************************************************************)
\* Lines 315-357 after the fetch of line 311 settled with r: directNhtsaCall
\* stores and returns the record, or throws.  Awaited inside the try block
\* (line 281, pc "nhtsa") the throw enters the catch block; awaited inside the
\* catch block (line 289, pc "nhtsaFallback") nothing catches it.  The return
\* of directNhtsaCall and the settling of decodeVin's promise are one step: only
\* promise jobs separate them, no timer callback and no network event.
directNhtsaCall(p, r) ==
    LET c == [call[p] EXCEPT !.nhtsaResp = <<r>>]
    IN  IF r.kind = "ok"
        THEN /\ CacheSet(Normalized[c.vin], NhtsaVehicleInfo(Normalized[c.vin], r.data))
             /\ Resolve(p, c, NhtsaVehicleInfo(Normalized[c.vin], r.data))
             /\ UNCHANGED timers
        ELSE IF c.pc = "nhtsa"
             THEN CatchBlock(p, c)
             ELSE /\ Reject(p, c)
                  /\ UNCHANGED <<cache, age, timers>>

NhtsaRespond(p) ==
    /\ call[p].pc \in {"nhtsa", "nhtsaFallback"}
    /\ \E r \in NhtsaResponses : directNhtsaCall(p, r)
    /\ UNCHANGED kv

(***************************************************************************)
(* Cache eviction, clearCache, time                                        *)
(***************************************************************************)
\* The callback of line 302: () => this.cache.delete(normalizedVin).
TimerFire(t) ==
    /\ t \in timers
    /\ t.remaining = 0
    /\ timers' = timers \ {t}
    /\ cache' = MapDelete(cache, t.key)
    /\ age' = [age EXCEPT ![t.key] = 0]
    /\ UNCHANGED <<kv, call>>

\* Lines 401-403.
clearCache ==
    /\ cache' = EmptyMap
    /\ age' = [k \in Keys |-> 0]
    /\ UNCHANGED <<timers, kv, call>>

\* Time passes, observed one retention period at a time: every event falls
\* before, at or after the moment a pending timer is due.  A timer that is due
\* fires before time moves on.
Tick ==
    /\ \A t \in timers : t.remaining > 0
    /\ timers' = {[t EXCEPT !.remaining = IF @ > RetentionMinutes
                                          THEN @ - RetentionMinutes ELSE 0] :
                   t \in timers}
    /\ age' = [k \in Keys |->
                 IF ~MapHas(cache, k) THEN 0
                 ELSE IF age[k] > RetentionMinutes THEN age[k]
                 ELSE age[k] + RetentionMinutes]
    /\ UNCHANGED <<cache, kv, call>>

Call(p) == \E vin \in VinInputs, accessToken \in TokenInputs : decodeVin(p, vin, accessToken)

(***************************************************************************)
(* The Scanner component (components/Scanner.tsx)                          *)
(*                                                                         *)
(* A React function component: every render creates new closures over the  *)
(* state values of that render.  A handler started by a click runs with    *)
(* the closures of the latest render; startCamera, and the setInterval     *)
(* callback it installs, keep the closures of the render that called       *)
(* startCamera; the cleanup of the [isOpen] effect keeps those of the      *)
(* render in which the effect last ran.  Refs (videoRef, canvasRef,        *)
(* scanIntervalRef) are shared by all renders.  The parent owns isOpen:    *)
(* onClose() only asks it to close.                                        *)
(* Media streams are numbered 1..MaxStreams, 0 is null; the interval       *)
(* created by the startCamera call that obtained stream n has id n.        *)
(***************************************************************************)
MaxStreams     == 2    \* streams getUserMedia hands out
MaxStarts      == 2    \* startCamera calls that may be awaiting at once
MaxEmits       == 2    \* onScan calls that are counted per session
MaxRandomIndex == 1    \* Math.floor(Math.random() * list.length) ranges over 0..MaxRandomIndex-1

StreamIds == 1..MaxStreams
StartIds  == 1..MaxStarts
Modes     == {"auto", "vin", "barcode"}

\* /^\d{8,14}$/ accepting every string (mutation of BARCODE_PATTERN).
BARCODE_PATTERN_Any(s) == TRUE

\* const BARCODE_PATTERN = /^\d{8,14}$/  (.test)
BARCODE_PATTERN(s) ==
    /\ 8 <= Len(s) /\ Len(s) <= 14
    /\ \A i \in 1..Len(s) : InCharRange(s[i], "0", "9")

\* const VIN_PATTERN = /^[A-HJ-NPR-Z0-9]{17}$/  (.test)
VIN_PATTERN(s) == VinPatternTest(s)

WhiteSpace == {" "}

\* String.prototype.trim
RECURSIVE trimStart(_)
trimStart(s) == IF s # <<>> /\ Head(s) \in WhiteSpace THEN trimStart(Tail(s)) ELSE s

RECURSIVE trimEnd(_)
trimEnd(s) ==
    IF s # <<>> /\ s[Len(s)] \in WhiteSpace THEN trimEnd(SubSeq(s, 1, Len(s) - 1)) ELSE s

trim(s) == trimEnd(trimStart(s))

\* Number to decimal string (n >= 0), as  number + ''  and string + number do.
RECURSIVE NumberToString(_)
NumberToString(n) ==
    IF n < 10 THEN <<DigitChars[n + 1]>>
    ELSE NumberToString(n \div 10) \o <<DigitChars[(n % 10) + 1]>>

\* The candidate lists of detectTextInImage and the Demo Scan button.
barcodeResults ==
    << <<"1","2","3","4","5","6","7","8","9","0","1","2","3">>,
       <<"9","8","7","6","5","4","3","2","1","0","9","8","7">>,
       <<"4","5","6","7","8","9","0","1","2","3","4","5","6">>,
       <<"7","8","9","0","1","2","3","4","5","6","7","8","9">>,
       <<"3","4","5","6","7","8","9","0","1","2","3","4","5">> >>

vinResults ==
    << <<"1","H","G","B","H","4","1","J","X","M","N","1","0","9","1","8","6">>,
       <<"2","F","M","D","K","3","G","C","4","D","B","A","1","2","3","4","5">>,
       <<"5","N","P","E","3","4","A","F","4","D","H","1","2","3","4","5","6">>,
       <<"1","G","1","B","E","5","S","M","7","F","7","1","2","3","4","5","6">>,
       <<"W","B","A","F","R","7","C","5","9","B","C","1","2","3","4","5","6">> >>

vinPrefixes ==
    << <<"1","H","G","B","H","4","1","J","X">>,
       <<"2","F","M","D","K","3","G","C","4">>,
       <<"5","N","P","E","3","4","A","F","4">>,
       <<"1","G","1","B","E","5","S","M","7">>,
       <<"W","B","A","F","R","7","C","5","9">> >>

\* A value of Math.floor(Math.random() * 9000000000000), as 13 decimal digits
\* (the numbers exceed the integers of TLC).
BarcodeFloors == { <<0,0,0,0,0,0,0,0,0,0,0,0,0>> }

\* A value of Math.floor(Math.random() * 900000).
SuffixFloors == {0}

\* detectBarcodePatterns when verticalLines >= 5:
\*   Math.floor(Math.random() * 9000000000000) + 1000000000000 + ''
\* Adding 10^12 to a 13-digit value below 9 * 10^12 raises its first digit by one.
MockBarcode(floor) ==
    LET sum == [floor EXCEPT ![1] = @ + 1]
    IN  [i \in 1..Len(sum) |-> DigitChars[sum[i] + 1]]

\* detectVinPatterns when hasTextLikeRegions:
\*   prefix + (Math.floor(Math.random() * 900000) + 100000)
MockVin(p, floor) == vinPrefixes[p] \o NumberToString(floor + 100000)

\* What the two heuristics can return for a frame; <<>> is null (both are falsy).
BarcodeDetections == {MockBarcode(f) : f \in BarcodeFloors}
VinDetections     == {MockVin(p, f) : p \in 1..MaxRandomIndex, f \in SuffixFloors}

\* Method 3 of detectTextInImage: the result drawn when Math.random() < 0.02.
RandomResults(mode) ==
    LET barcodes == {[type |-> "barcode", data |-> barcodeResults[i]] : i \in 1..MaxRandomIndex}
        vins     == {[type |-> "vin", data |-> vinResults[i]] : i \in 1..MaxRandomIndex}
    IN  IF mode = "barcode" THEN barcodes
        ELSE IF mode = "vin" THEN vins
        ELSE barcodes \cup vins

\* mockResults of the Demo Scan button.
mockResults(mode) ==
    IF mode = "barcode" THEN {[type |-> "barcode", data |-> barcodeResults[1]]}
    ELSE IF mode = "vin" THEN {[type |-> "vin", data |-> vinResults[1]]}
    ELSE {[type |-> "barcode", data |-> barcodeResults[1]],
          [type |-> "vin", data |-> vinResults[1]]}

\* Texts of the manual entry field.
ManualInputs ==
    { <<>>, <<" ">>, <<" ">> \o VinALower \o <<" ">>, VinWithO,
      barcodeResults[1], <<"1","2","3">> }

\* Every candidate payload, with the verdict of each pattern (evaluated once).
Payloads ==
    BarcodeDetections \cup VinDetections \cup Range(barcodeResults) \cup Range(vinResults)
    \cup {trim(t) : t \in ManualInputs} \cup {toUpperCase(trim(t)) : t \in ManualInputs}

VinPatternOk     == [d \in Payloads |-> VIN_PATTERN(d)]
BarcodePatternOk == [d \in Payloads |-> BARCODE_PATTERN(d)]

\* handleManualSubmit, lines 113-122: the result built from the text, if any.
ManualResult ==
    [t \in ManualInputs |->
        IF VinPatternOk[toUpperCase(trim(t))]
        THEN <<[type |-> "vin", data |-> toUpperCase(trim(t))]>>
        ELSE IF BarcodePatternOk[trim(t)]
        THEN <<[type |-> "barcode", data |-> trim(t)]>>
        ELSE <<>>]

\* One run of a heuristic on a frame.  kind: which heuristic; fired: its
\* density test (verticalLines >= 5, hasTextLikeRegions); index, floor and
\* digits: the values of the Math.floor(Math.random() * ...) expressions.
SynthLeadDigits == 0..8
SynthFillDigits == {0, 5, 9}
SynthSuffixFloors == {0, 1, 9, 99999, 450000, 899998, 899999}

SynthInputs ==
    { [kind |-> "barcode", fired |-> fired, index |-> 1, floor |-> 0,
       digits |-> [i \in 1..13 |-> IF i = 1 THEN d ELSE r],
       done |-> FALSE, payload |-> <<>>] :
         fired \in BOOLEAN, d \in SynthLeadDigits, r \in SynthFillDigits }
    \cup
    { [kind |-> "vin", fired |-> fired, index |-> p, floor |-> f,
       digits |-> <<>>, done |-> FALSE, payload |-> <<>>] :
         fired \in BOOLEAN, p \in DOMAIN vinPrefixes, f \in SynthSuffixFloors }

SynthIdle ==
    synth = [kind |-> "none", fired |-> FALSE, index |-> 1, floor |-> 0,
             digits |-> <<>>, done |-> FALSE, payload |-> <<>>]

\* detectBarcodePatterns (lines 253-298): the mock number, or null.
detectBarcodePatterns ==
    /\ synth.kind = "barcode" /\ ~synth.done
    /\ synth' = [synth EXCEPT !.done = TRUE,
                              !.payload = IF synth.fired THEN MockBarcode(synth.digits)
                                          ELSE <<>>]

\* detectVinPatterns (lines 300-325): the mock VIN, or null.
detectVinPatterns ==
    /\ synth.kind = "vin" /\ ~synth.done
    /\ synth' = [synth EXCEPT !.done = TRUE,
                              !.payload = IF synth.fired
                                          THEN MockVin(synth.index, synth.floor)
                                          ELSE <<>>]

\* A startCamera call: the await it is at, the props and state of the render
\* that called it (mode, stream, lastScan) and the stream it obtained.
NoStart ==
    [pc |-> "idle", mode |-> "auto", stream |-> 0, lastScan |-> <<>>, mediaStream |-> 0]

\* What is recorded of a session: the number of onScan calls while it is open
\* and the last of them; whether handleScanResult forwarded a result, and
\* whether scanFrame ran after that, since it was opened; the last candidate
\* detectTextInImage handed to handleScanResult and whether a candidate
\* repeated its predecessor.
NoLog ==
    [onScanCalls |-> 0, lastOnScan |-> <<>>, forwarded |-> FALSE,
     scanFrameAfterForward |-> FALSE, lastHanded |-> <<>>, handedRepeat |-> FALSE]

\* The component after its first render with isOpen = false.
ScannerIdle ==
    /\ scanner = [mounted |-> TRUE, isOpen |-> FALSE, mode |-> "auto",
                  stream |-> 0, isScanning |-> FALSE, error |-> FALSE,
                  permissionDenied |-> FALSE, lastScan |-> <<>>,
                  showManualInput |-> FALSE, scanIntervalRef |-> 0,
                  videoSrc |-> 0, cleanupStream |-> 0,
                  tracks |-> [n \in StreamIds |-> "none"],
                  intervals |-> {},
                  starts |-> [k \in StartIds |-> NoStart]]
    /\ scanLog = NoLog

\* The <video> and <canvas> elements are rendered (lines 392 and 438), so
\* videoRef.current and canvasRef.current are not null.
VideoShown(s) ==
    s.mounted /\ s.isOpen /\ ~s.error /\ ~s.permissionDenied /\ ~s.showManualInput

\* The error panel with "Try Again" is rendered (line 480).
ErrorShown(s) ==
    s.mounted /\ s.isOpen /\ (s.error \/ s.permissionDenied) /\ ~s.showManualInput

\* The manual entry panel is rendered (line 542).
ManualShown(s) == s.mounted /\ s.isOpen /\ s.showManualInput

\* The commit of a render: a <video> element that is no longer rendered is
\* dropped, and a later one starts without srcObject.  The state of an
\* unmounted component is gone (its setters do nothing); the refs, the
\* streams, the intervals and the awaiting calls with their closures stay.
Render(s) ==
    IF ~s.mounted
    THEN [s EXCEPT !.stream = 0, !.isScanning = FALSE, !.error = FALSE,
                   !.permissionDenied = FALSE, !.lastScan = <<>>,
                   !.showManualInput = FALSE, !.videoSrc = 0, !.cleanupStream = 0,
                   !.mode = "auto", !.isOpen = FALSE]
    ELSE IF VideoShown(s) THEN s
    ELSE [s EXCEPT !.videoSrc = 0]

\* stopCamera of a render whose stream state is `stream`.
stopCamera(s, stream) ==
    LET s1 == IF stream # 0
              THEN [s EXCEPT !.tracks[stream] = "stopped", !.stream = 0]
              ELSE s
        s2 == [s1 EXCEPT !.isScanning = FALSE]
    IN  IF s2.scanIntervalRef # 0
        THEN [s2 EXCEPT !.intervals = {t \in @ : t.id # s2.scanIntervalRef}]
        ELSE s2

\* startScanning of the startCamera call `c` that obtained c.mediaStream:
\* a new interval whose callback keeps the closures of the call's render.
\* The previous value of scanIntervalRef is overwritten, not cleared.
startScanning(s, c) ==
    [s EXCEPT !.intervals = @ \cup {[id |-> c.mediaStream, mode |-> c.mode,
                                     stream |-> c.stream, lastScan |-> c.lastScan]},
              !.scanIntervalRef = c.mediaStream]

\* startCamera up to its first await (lines 40-64), called from a render whose
\* state is `r`.  envOk: the page is secure and mediaDevices exists.
startCamera(s, r, k, envOk) ==
    LET s1 == [s EXCEPT !.error = FALSE, !.permissionDenied = FALSE]
    IN  IF ~envOk
        THEN [s1 EXCEPT !.error = TRUE]
        ELSE [s1 EXCEPT !.starts[k] = [pc |-> "getUserMedia", mode |-> r.mode,
                                       stream |-> r.stream, lastScan |-> r.lastScan,
                                       mediaStream |-> 0]]

\* startCamera after its awaits (lines 72-80).
startCameraFinish(s, k) ==
    LET c  == s.starts[k]
        s1 == [s EXCEPT !.isScanning = TRUE, !.starts[k] = NoStart]
    IN  startScanning(s1, c)

\* The catch block of startCamera (lines 81-96).
startCameraCatch(s, k, denied) ==
    [s EXCEPT !.starts[k] = NoStart, !.error = TRUE,
              !.permissionDenied = IF denied THEN TRUE ELSE @]

\* The first startCamera call that is not awaiting, if any.
FreeStart(s) ==
    {k \in StartIds : /\ s.starts[k].pc = "idle"
                      /\ \A j \in StartIds : j < k => s.starts[j].pc # "idle"}

AnyLive(s) == \E n \in StreamIds : s.tracks[n] = "live"

\* onScan(result) as the caller sees it: the result, and whether an interval
\* is active and a camera track live at the moment of the call.
OnScanCall(s, result, from) ==
    [type |-> result.type, data |-> result.data, from |-> from,
     samplingAtEmit |-> s.intervals # {}, liveAtEmit |-> AnyLive(s)]

\* The onScan call recorded.
Forward(log, c) == [log EXCEPT !.onScanCalls = @ + 1, !.lastOnScan = <<c>>]

\* handleScanResult reporting an invalid candidate as an error (mutation).
handleScanResultReportInvalid(s, log, result, stream, from) ==
    LET isValid == IF result.type = "vin" THEN VinPatternOk[result.data]
                   ELSE IF result.type = "barcode" THEN BarcodePatternOk[result.data]
                   ELSE FALSE
    IN  IF isValid
        THEN [s   |-> stopCamera(s, stream),
              log |-> Forward([log EXCEPT !.forwarded = TRUE],
                              OnScanCall(s, result, from))]
        ELSE [s |-> [s EXCEPT !.error = TRUE], log |-> log]

\* handleScanResult of a render whose stream state is `stream`.  onScan is
\* called first, with the camera and the interval as they are; then
\* stopCamera; onClose() has no effect of its own on the component.
handleScanResult(s, log, result, stream, from) ==
    LET isValid == IF result.type = "vin" THEN VinPatternOk[result.data]
                   ELSE IF result.type = "barcode" THEN BarcodePatternOk[result.data]
                   ELSE FALSE
    IN  IF isValid
        THEN [s   |-> stopCamera(s, stream),
              log |-> Forward([log EXCEPT !.forwarded = TRUE],
                              OnScanCall(s, result, from))]
        ELSE [s |-> s, log |-> log]

\* The candidate detectTextInImage hands on, recorded with the method that
\* produced it and what the two heuristics returned for the frame.
Remember(log, result, source, detectedBarcode, detectedVin) ==
    [log EXCEPT !.lastHanded = <<[type |-> result.type, data |-> result.data,
                                  source |-> source,
                                  barcodeFired |-> detectedBarcode # <<>>,
                                  vinFired |-> detectedVin # <<>>]>>,
                !.handedRepeat = @ \/ (log.lastHanded # <<>>
                                        /\ log.lastHanded[1].data = result.data)]

\* setLastScan(result.data); handleScanResult(result) as detectTextInImage does.
Emit(s, log, result, t, source, detectedBarcode, detectedVin) ==
    handleScanResult([s EXCEPT !.lastScan = result.data],
                     Remember(log, result, source, detectedBarcode, detectedVin),
                     result, t.stream, "tick")

\* detectTextInImage run by the callback of interval t (mode is t.mode and
\* lastScan is t.lastScan, those of the render that started the interval).
\* detectedBarcode, detectedVin: what the heuristics return for the frame;
\* random: <<>> when Math.random() >= 0.02, else the result drawn.
\* The await of detectVinPatterns resumes in a microtask, before any other
\* handler runs, so the function is one step.
detectTextInImage(s, log, t, detectedBarcode, detectedVin, random) ==
    LET barcodeMode == t.mode = "barcode" \/ t.mode = "auto"
        vinMode     == t.mode = "vin" \/ t.mode = "auto"
    IN  IF detectedBarcode # <<>> /\ barcodeMode /\ detectedBarcode # t.lastScan
        THEN Emit(s, log, [type |-> "barcode", data |-> detectedBarcode], t, "barcode",
                  detectedBarcode, detectedVin)
        ELSE IF detectedVin # <<>> /\ vinMode /\ detectedVin # t.lastScan
        THEN Emit(s, log, [type |-> "vin", data |-> detectedVin], t, "vin",
                  detectedBarcode, detectedVin)
        ELSE IF random # <<>> /\ random[1].data # t.lastScan
        THEN Emit(s, log, random[1], t, "random", detectedBarcode, detectedVin)
        ELSE [s |-> s, log |-> log]

\* Every result comes with onClose(): after MaxEmits results in a session the
\* parent closes it (or unmounts the component) before anything else happens.
WithinEmits == scanLog.onScanCalls < MaxEmits

Commit(r) ==
    /\ scanner' = Render(r.s)
    /\ scanLog' = r.log

\* The parent sets isOpen = true: the cleanup of the previous effect run, then
\* startCamera() (lines 375-390).
Open ==
    /\ scanner.mounted /\ ~scanner.isOpen
    /\ \E m \in Modes, envOk \in BOOLEAN, k \in FreeStart(scanner) :
          LET s0 == [scanner EXCEPT !.isOpen = TRUE, !.mode = m,
                                    !.cleanupStream = scanner.stream]
              s1 == stopCamera(s0, scanner.cleanupStream)
          IN  Commit([s   |-> startCamera(s1, s0, k, envOk),
                      log |-> NoLog])

\* The parent sets isOpen = false: the cleanup of the previous effect run, then
\* stopCamera() of the new render and the resets (lines 378-385).  The mode
\* prop is given anew when the parent opens the scanner again.
Close ==
    /\ scanner.mounted /\ scanner.isOpen
    /\ LET s0 == [scanner EXCEPT !.isOpen = FALSE, !.cleanupStream = scanner.stream]
           s1 == stopCamera(s0, scanner.cleanupStream)
           s2 == stopCamera(s1, scanner.stream)
       IN  Commit([s   |-> [s2 EXCEPT !.error = FALSE, !.permissionDenied = FALSE,
                                       !.lastScan = <<>>, !.showManualInput = FALSE,
                                       !.mode = "auto"],
                   log |-> [scanLog EXCEPT !.onScanCalls = 0, !.lastOnScan = <<>>,
                                           !.lastHanded = <<>>,
                                           !.handedRepeat = FALSE]])

\* The component unmounts: only the cleanup runs (lines 387-389).
Unmount ==
    /\ scanner.mounted
    /\ Commit([s   |-> [stopCamera(scanner, scanner.cleanupStream)
                           EXCEPT !.mounted = FALSE],
               log |-> scanLog])

\* getUserMedia resolves for the startCamera call k (lines 64-80).
GetUserMediaResolves(k) ==
    /\ scanner.starts[k].pc = "getUserMedia"
    /\ WithinEmits
    /\ \E n \in StreamIds :
          /\ scanner.tracks[n] = "none"
          /\ \A i \in StreamIds : i < n => scanner.tracks[i] # "none"
          /\ LET s1 == [scanner EXCEPT !.tracks[n] = "live", !.stream = n,
                                       !.starts[k].mediaStream = n]
             IN  IF VideoShown(scanner)
                 THEN Commit([s   |-> [s1 EXCEPT !.videoSrc = n, !.starts[k].pc = "play"],
                              log |-> scanLog])
                 ELSE Commit([s |-> startCameraFinish(s1, k), log |-> scanLog])

\* getUserMedia rejects for the startCamera call k (lines 81-96).
GetUserMediaRejects(k) ==
    /\ scanner.starts[k].pc = "getUserMedia"
    /\ WithinEmits
    /\ \E denied \in BOOLEAN :
          Commit([s |-> startCameraCatch(scanner, k, denied), log |-> scanLog])

\* video.play() resolves for the startCamera call k (lines 69-80).
PlayResolves(k) ==
    /\ scanner.starts[k].pc = "play"
    /\ WithinEmits
    /\ Commit([s |-> startCameraFinish(scanner, k), log |-> scanLog])

\* video.play() rejects for the startCamera call k (lines 81-96).
PlayRejects(k) ==
    /\ scanner.starts[k].pc = "play"
    /\ WithinEmits
    /\ Commit([s |-> startCameraCatch(scanner, k, FALSE), log |-> scanLog])

\* The callback of interval t fires: scanFrame (lines 159-180).
scanFrame(t) ==
    /\ t \in scanner.intervals
    /\ WithinEmits
    /\ LET log == [scanLog EXCEPT !.scanFrameAfterForward = @ \/ scanLog.forwarded]
       IN  IF ~VideoShown(scanner) \/ scanner.videoSrc = 0
           THEN Commit([s |-> scanner, log |-> log])
           ELSE \E detectedBarcode \in BarcodeDetections \cup {<<>>},
                   detectedVin \in VinDetections \cup {<<>>},
                   random \in {<<>>} \cup {<<r>> : r \in RandomResults(t.mode)} :
                   Commit(detectTextInImage(scanner, log, t, detectedBarcode,
                                            detectedVin, random))

\* The Demo Scan button (lines 636-654).
DemoScan ==
    /\ VideoShown(scanner)
    /\ WithinEmits
    /\ \E result \in mockResults(scanner.mode) :
          Commit(handleScanResult(scanner, scanLog, result, scanner.stream, "demo"))

\* The "Enter manually" buttons (lines 531 and 628).
EnterManually ==
    /\ scanner.mounted /\ scanner.isOpen /\ ~scanner.showManualInput
    /\ WithinEmits
    /\ Commit([s |-> [scanner EXCEPT !.showManualInput = TRUE], log |-> scanLog])

\* The "Use Camera" button (line 588).
UseCamera ==
    /\ ManualShown(scanner)
    /\ WithinEmits
    /\ Commit([s |-> [scanner EXCEPT !.showManualInput = FALSE], log |-> scanLog])

\* handleManualSubmit with the field holding manualInput (lines 110-130).
handleManualSubmit(manualInput) ==
    /\ ManualShown(scanner)
    /\ WithinEmits
    /\ LET result == ManualResult[manualInput]
       IN  IF trim(manualInput) = <<>>
           THEN UNCHANGED <<scanner, scanLog>>
           ELSE IF result # <<>> /\ (scanner.mode = "auto" \/ scanner.mode = result[1].type)
           THEN Commit([s   |-> scanner,
                        log |-> Forward(scanLog,
                                        OnScanCall(scanner, result[1], "manual"))])
           ELSE Commit([s |-> [scanner EXCEPT !.error = TRUE], log |-> scanLog])

\* retryCamera, the "Try Again" button (lines 132-137).
retryCamera ==
    /\ ErrorShown(scanner)
    /\ WithinEmits
    /\ \E envOk \in BOOLEAN, k \in FreeStart(scanner) :
          LET s1 == [scanner EXCEPT !.error = FALSE, !.permissionDenied = FALSE,
                                    !.showManualInput = FALSE]
          IN  Commit([s |-> startCamera(s1, scanner, k, envOk), log |-> scanLog])

(***************************************************************************)
(* The admin routes of the backend (supabase/functions/server/index.tsx)   *)
(*                                                                         *)
(* The kv store holds user:<id> profiles, user_fuel_entries:<id> lists,    *)
(* fuel_entry:<id> records and vehicle:<VIN> records.  A request runs      *)
(* requireAuth, then reads the caller's profile, then does the work of     *)
(* its route; requests of different callers interleave at these awaits.    *)
(***************************************************************************)
NumRequests == 2       \* admin requests that may overlap

Requests == 1..NumRequests
UserIds  == {"admin-user", "porter-user", "new-user"}
Roles    == {"admin", "porter"}

\* supabase.auth.getUser: the users of the bearer tokens that are valid.
TokenUser ==
    [t \in {"jwt-admin", "jwt-porter", "jwt-new"} |->
        IF t = "jwt-admin" THEN "admin-user"
        ELSE IF t = "jwt-porter" THEN "porter-user"
        ELSE "new-user"]

AdminTokens == {Undefined, "jwt-forged"} \cup DOMAIN TokenUser

AdminRoutes == {"GET users", "PUT role", "DELETE user", "GET vehicles", "GET export"}

IdleRequest ==
    [pc |-> "idle", route |-> "", token |-> Undefined, userId |-> "", role |-> "",
     user |-> "", roleStored |-> "", status |-> 0, wrote |-> FALSE]

\* The store after initDemoUsers (lines 42-102): the demo admin and porter;
\* "new-user" can sign in but has no profile.  The porter has one fuel entry.
AdminIdle ==
    /\ store = [profiles    |-> [u \in UserIds |->
                                    IF u = "admin-user" THEN "admin"
                                    ELSE IF u = "porter-user" THEN "porter"
                                    ELSE Undefined],
                userEntries |-> [u \in UserIds |->
                                    IF u = "porter-user" THEN {"entry-1"} ELSE {}],
                fuelEntries |-> {"entry-1"},
                vehicles    |-> {"vehicle:1HGBH41JXMN109186"}]
    /\ reqs = [q \in Requests |-> IdleRequest]

\* Request q is answered.  Of the answered requests only the last is kept.
Respond(q, r, status) ==
    reqs' = [x \in Requests |->
                IF x = q THEN [r EXCEPT !.pc = "done", !.status = status,
                                        !.userId = "", !.role = ""]
                ELSE IF reqs[x].pc = "done" THEN IdleRequest
                ELSE reqs[x]]

\* The :userId parameter and the role of the body, for the routes that have them.
ParamUserIds(route) == IF route \in {"PUT role", "DELETE user"} THEN UserIds ELSE {""}
BodyRoles(route)    == IF route = "PUT role" THEN Roles ELSE {""}

\* A request arrives and runs requireAuth (lines 109-122).
AdminRequest(q) ==
    /\ reqs[q].pc \in {"idle", "done"}
    /\ \E route \in AdminRoutes, token \in AdminTokens :
       \E userId \in ParamUserIds(route), role \in BodyRoles(route) :
          LET r    == [IdleRequest EXCEPT !.route = route, !.token = token,
                                          !.userId = userId, !.role = role]
              auth == requireAuth(token, token \in DOMAIN TokenUser)
          IN  IF auth # 0
              THEN Respond(q, r, auth)
              ELSE reqs' = [reqs EXCEPT ![q] = [r EXCEPT !.pc = "authenticated",
                                                         !.user = TokenUser[token]]]
    /\ UNCHANGED store

\* The role test accepting every profile (mutation of IsAdmin).
IsAdminAlways(userProfile) == TRUE

\* userProfile?.role !== 'admin'  negated (lines 383, 401, 433, 592, 610).
IsAdmin(userProfile) == userProfile = "admin"

\* const userProfile = await kv.get(`user:${user.id}`) and the role test.
\* storeFails: kv.get throws, which the route's catch answers with 500.
AdminCheck(q) ==
    /\ reqs[q].pc = "authenticated"
    /\ \E storeFails \in BOOLEAN :
          LET r == [reqs[q] EXCEPT !.roleStored = store.profiles[reqs[q].user]]
          IN  IF storeFails THEN Respond(q, r, 500)
              ELSE IF ~IsAdmin(store.profiles[r.user]) THEN Respond(q, r, 403)
              ELSE reqs' = [reqs EXCEPT ![q] = [r EXCEPT !.pc = "admin"]]
    /\ UNCHANGED store

\* PUT /admin/users/:userId/role after the role test (lines 405-420).
UpdateUserRole(q) ==
    LET r == reqs[q]
    IN  IF store.profiles[r.userId] = Undefined
        THEN Respond(q, r, 404) /\ UNCHANGED store
        ELSE /\ store' = [store EXCEPT !.profiles[r.userId] = r.role]
             /\ Respond(q, [r EXCEPT !.wrote = TRUE], 200)

\* DELETE /admin/users/:userId after the role test (lines 437-452).
DeleteUser(q) ==
    LET r == reqs[q]
    IN  /\ store' = [store EXCEPT !.profiles[r.userId] = Undefined,
                                  !.fuelEntries = @ \ store.userEntries[r.userId],
                                  !.userEntries[r.userId] = {}]
        /\ Respond(q, [r EXCEPT !.wrote = TRUE], 200)

\* The work of a route after the role test.  storeFails: the first kv call
\* of the route throws, which the route's catch answers with 500.
AdminAct(q) ==
    /\ reqs[q].pc = "admin"
    /\ \E storeFails \in BOOLEAN :
          IF storeFails THEN Respond(q, reqs[q], 500) /\ UNCHANGED store
          ELSE IF reqs[q].route = "PUT role" THEN UpdateUserRole(q)
          ELSE IF reqs[q].route = "DELETE user" THEN DeleteUser(q)
          ELSE Respond(q, reqs[q], 200) /\ UNCHANGED store

(***************************************************************************)
(* The backend decode route alone, with the age of its stored records      *)
(* (supabase/functions/server/index.tsx, lines 460-567)                    *)
(***************************************************************************)
BackendRetentionMinutes == 30   \* "Cache error result for 30 minutes" (line 558)
ClockStepMinutes        == 15   \* time is observed in steps of a quarter of an hour
MaxStoredMinutes        == 45   \* ages are counted up to this value

\* A request to the route: the await it is at, its answer, and, for an answer
\* taken from the store, the age of the record at that moment.
IdleDecodeRequest ==
    [pc |-> "idle", vin |-> <<>>, status |-> 0, body |-> <<>>,
     fromStore |-> FALSE, storedMinutes |-> 0]

SrvIdle == srv = [minutes |-> [k \in Keys |-> 0], req |-> IdleDecodeRequest]

\* A request arrives: requireAuth and the handler up to the fetch of line 490.
DecodeRequest ==
    /\ srv.req.pc \in {"idle", "done"}
    /\ \E vin \in TwoVinInputs, tokenOk \in BOOLEAN, storeFails \in BOOLEAN :
          LET normalizedVin == Normalized[vin]
              answer == BackendBeforeFetch(ValidToken, tokenOk, normalizedVin, storeFails)
              r      == [IdleDecodeRequest EXCEPT !.vin = normalizedVin]
          IN  srv' = [srv EXCEPT !.req =
                        IF answer.status = 0
                        THEN [r EXCEPT !.pc = "upstream"]
                        ELSE [r EXCEPT !.pc = "done", !.status = answer.status,
                                       !.body = <<answer.body>>,
                                       !.fromStore = (answer.status = 200),
                                       !.storedMinutes =
                                           IF answer.status = 200
                                           THEN srv.minutes[normalizedVin] ELSE 0]]
    /\ UNCHANGED kv

\* The registry answers: the record is stored (line 541 or 559) and returned.
DecodeUpstream ==
    /\ srv.req.pc = "upstream"
    /\ \E r \in NhtsaResponses :
          LET answer == BackendAfterFetch(srv.req.vin, r)
          IN  /\ kv' = MapSet(kv, srv.req.vin, answer.body)
              /\ srv' = [srv EXCEPT !.minutes[srv.req.vin] = 0,
                                    !.req = [srv.req EXCEPT !.pc = "done",
                                                            !.status = answer.status,
                                                            !.body = <<answer.body>>]]

\* A quarter of an hour passes.
MinutesPass ==
    /\ \E k \in Keys : MapHas(kv, k) /\ srv.minutes[k] < MaxStoredMinutes
    /\ srv' = [srv EXCEPT !.minutes =
                  [k \in Keys |->
                      IF MapHas(kv, k) /\ srv.minutes[k] < MaxStoredMinutes
                      THEN srv.minutes[k] + ClockStepMinutes
                      ELSE srv.minutes[k]]]
    /\ UNCHANGED kv

(***************************************************************************)
(* The VehicleIdentification component (components/VehicleIdentification)  *)
(*                                                                         *)
(* The effect of lines 56-62 runs when vin or accessToken changed: it      *)
(* starts a decode for a 17-character vin and clears vehicleInfo           *)
(* otherwise.  A decode (lines 64-81) awaits vinService.decodeVin; its     *)
(* continuation sets vehicleInfo (when the promise resolved) and then      *)
(* isDecodingVin = false.  Nothing ties a continuation to the vin of the   *)
(* render in which it runs.                                                *)
(***************************************************************************)
MaxDecodes == 2        \* decodes that may be awaiting at once

DecodeIds == 1..MaxDecodes

\* Texts of the VIN field: empty, 16 characters, and two VINs.
ShortVin       == SubSeq(VinA, 1, VinLength - 1)
VinFieldInputs == {<<>>, ShortVin} \cup TwoVinInputs

NoDecode == [pc |-> "idle", vinToCheck |-> <<>>]

\* The component after its mount without initialData, getSession pending.
ScreenIdle ==
    screen = [vin |-> <<>>, accessToken |-> Null, vehicleInfo |-> <<>>,
              isDecodingVin |-> FALSE, decodes |-> [d \in DecodeIds |-> NoDecode]]

\* The first decode slot that is not awaiting, if any.
FreeDecode(s) ==
    {d \in DecodeIds : /\ s.decodes[d].pc = "idle"
                       /\ \A j \in DecodeIds : j < d => s.decodes[j].pc # "idle"}

\* What vinService.decodeVin can resolve to for a 17-character string: a
\* record of that VIN, decoded or not.
DecodeOutcomes(vinToCheck) ==
    {NhtsaVehicleInfo(Normalized[vinToCheck], DataFull), ErrorInfo(Normalized[vinToCheck])}

\* Lines 56-62 run on state s; lines 64-67 of the decode they start as
\* decode d.
VinEffect(s, d) ==
    IF s.vin # <<>> /\ Len(s.vin) = VinLength
    THEN [s EXCEPT !.isDecodingVin = TRUE,
                   !.decodes[d] = [pc |-> "decodeVin", vinToCheck |-> s.vin]]
    ELSE [s EXCEPT !.vehicleInfo = <<>>]

\* The VIN field changes (setVin): the effect runs.
SetVin(v) ==
    /\ v # screen.vin
    /\ \E d \in (IF Len(v) = VinLength THEN FreeDecode(screen) ELSE DecodeIds) :
          screen' = VinEffect([screen EXCEPT !.vin = v], d)

\* getSession resolves with a session (lines 43-46): the effect runs again.
SessionResolves ==
    /\ screen.accessToken = Null
    /\ \E d \in (IF Len(screen.vin) = VinLength THEN FreeDecode(screen) ELSE DecodeIds) :
          screen' = VinEffect([screen EXCEPT !.accessToken = ValidToken], d)

\* The promise of decode d resolves (lines 68-74, 79).
DecodeResolves(d) ==
    /\ screen.decodes[d].pc = "decodeVin"
    /\ \E decoded \in DecodeOutcomes(screen.decodes[d].vinToCheck) :
          screen' = [screen EXCEPT !.vehicleInfo = <<decoded>>,
                                   !.isDecodingVin = FALSE,
                                   !.decodes[d] = NoDecode]

\* The promise of decode d rejects (lines 75-79).
DecodeRejects(d) ==
    /\ screen.decodes[d].pc = "decodeVin"
    /\ screen' = [screen EXCEPT !.isDecodingVin = FALSE, !.decodes[d] = NoDecode]

(***************************************************************************)
(* The fuel-entry routes of the backend (server/index.tsx, lines 268-336)  *)
(*                                                                         *)
(* POST /fuel-entries stores the entry, reads the caller's list of entry   *)
(* ids and writes the list with the new id appended: three awaits at which *)
(* requests interleave.  storeFails: the kv call throws and the route's    *)
(* catch answers 500.                                                      *)
(***************************************************************************)
NumFuelRequests == 2   \* creation requests that may overlap
MaxFuelEntries  == 2   \* entries created in all

FuelRequests == 1..NumFuelRequests
FuelTokens   == {Undefined, "jwt-porter", "jwt-admin"}

\* crypto.randomUUID(): the ids it hands out, in order.
NewEntryIds == <<"entry-2", "entry-3">>

IdleFuelRequest ==
    [pc |-> "idle", user |-> "", id |-> "", existingEntries |-> {}, status |-> 0]

\* No request yet, none created, no listing returned.
FuelIdle ==
    fuel = [reqs |-> [q \in FuelRequests |-> IdleFuelRequest], created |-> 0,
            listing |-> <<>>]

NoCreationInFlight == \A q \in FuelRequests : fuel.reqs[q].pc \in {"idle", "done"}

\* POST /fuel-entries arrives: requireAuth and lines 270-293.  A listing
\* returned before is forgotten.
CreateFuelEntry(q) ==
    /\ fuel.reqs[q].pc \in {"idle", "done"}
    /\ fuel.created < MaxFuelEntries
    /\ \E token \in FuelTokens :
          LET auth == requireAuth(token, token \in DOMAIN TokenUser)
          IN  fuel' = IF auth # 0
                      THEN [fuel EXCEPT !.reqs[q] = [IdleFuelRequest EXCEPT
                                                        !.pc = "done", !.status = auth],
                                        !.listing = <<>>]
                      ELSE [fuel EXCEPT !.reqs[q] = [IdleFuelRequest EXCEPT
                                                        !.pc = "entrySet",
                                                        !.user = TokenUser[token],
                                                        !.id = NewEntryIds[fuel.created + 1]],
                                        !.created = @ + 1,
                                        !.listing = <<>>]
    /\ UNCHANGED store

\* await kv.set(`fuel_entry:${fuelEntry.id}`, fuelEntry)  (line 295)
FuelEntrySet(q) ==
    /\ fuel.reqs[q].pc = "entrySet"
    /\ \E storeFails \in BOOLEAN :
          IF storeFails
          THEN /\ fuel' = [fuel EXCEPT !.reqs[q].pc = "done", !.reqs[q].status = 500]
               /\ UNCHANGED store
          ELSE /\ store' = [store EXCEPT !.fuelEntries = @ \cup {fuel.reqs[q].id}]
               /\ fuel' = [fuel EXCEPT !.reqs[q].pc = "listGet"]

\* const existingEntries = await kv.get(userEntriesKey) || []  (line 299)
FuelListGet(q) ==
    /\ fuel.reqs[q].pc = "listGet"
    /\ \E storeFails \in BOOLEAN :
          fuel' = IF storeFails
                  THEN [fuel EXCEPT !.reqs[q].pc = "done", !.reqs[q].status = 500]
                  ELSE [fuel EXCEPT !.reqs[q].pc = "listSet",
                                    !.reqs[q].existingEntries =
                                        store.userEntries[fuel.reqs[q].user]]
    /\ UNCHANGED store

\* await kv.set(userEntriesKey, [...existingEntries, fuelEntry.id]) and the
\* answer (lines 300-302).
FuelListSet(q) ==
    /\ fuel.reqs[q].pc = "listSet"
    /\ \E storeFails \in BOOLEAN :
          IF storeFails
          THEN /\ fuel' = [fuel EXCEPT !.reqs[q].pc = "done", !.reqs[q].status = 500]
               /\ UNCHANGED store
          ELSE /\ store' = [store EXCEPT !.userEntries[fuel.reqs[q].user] =
                                            fuel.reqs[q].existingEntries
                                            \cup {fuel.reqs[q].id}]
               /\ fuel' = [fuel EXCEPT !.reqs[q].pc = "done", !.reqs[q].status = 200]

\* GET /fuel-entries (lines 310-336) answered while the store does not change:
\* all entries for an admin, for other callers the stored entries of their
\* id list.  quiet: no creation request was in flight.
GetFuelEntries ==
    /\ fuel.listing = <<>>
    /\ \E token \in DOMAIN TokenUser :
          LET user    == TokenUser[token]
              entries == IF IsAdmin(store.profiles[user])
                         THEN store.fuelEntries
                         ELSE store.userEntries[user] \cap store.fuelEntries
          IN  fuel' = [fuel EXCEPT !.listing =
                          <<[user |-> user, admin |-> IsAdmin(store.profiles[user]),
                             entries |-> entries, quiet |-> NoCreationInFlight]>>]
    /\ UNCHANGED store

ExtIdle == SrvIdle /\ ScreenIdle /\ FuelIdle

(***************************************************************************)
(* Specifications                                                          *)
(***************************************************************************)
VinInit ==
    /\ cache = EmptyMap
    /\ timers = {}
    /\ age = [k \in Keys |-> 0]
    /\ kv = EmptyMap
    /\ call = [p \in Calls |-> IdleCall]

FmtIdle ==
    /\ fmtInput = <<>>
    /\ fmtDone = FALSE
    /\ fmtResult = FALSE

Init == VinInit /\ FmtIdle /\ ScannerIdle /\ AdminIdle /\ SynthIdle /\ ExtIdle

Next ==
    \/ \E p \in Calls : Call(p) /\ UNCHANGED <<fmtVars, scanVars, adminVars, synth, extVars>>
    \/ \E p \in Calls : BackendFetchThrows(p) /\ UNCHANGED <<fmtVars, scanVars, adminVars, synth, extVars>>
    \/ \E p \in Calls : BackendHandle(p) /\ UNCHANGED <<fmtVars, scanVars, adminVars, synth, extVars>>
    \/ \E p \in Calls : BackendUpstream(p) /\ UNCHANGED <<fmtVars, scanVars, adminVars, synth, extVars>>
    \/ \E p \in Calls : NhtsaRespond(p) /\ UNCHANGED <<fmtVars, scanVars, adminVars, synth, extVars>>
    \/ \E t \in timers : TimerFire(t) /\ UNCHANGED <<fmtVars, scanVars, adminVars, synth, extVars>>
    \/ clearCache /\ UNCHANGED <<fmtVars, scanVars, adminVars, synth, extVars>>
    \/ Tick /\ UNCHANGED <<fmtVars, scanVars, adminVars, synth, extVars>>

Spec == Init /\ [][Next]_vars

(***************************************************************************)
(* The validator alone, run on one input string                            *)
(***************************************************************************)
FmtLenSlack == 1       \* input lengths range over VinLength -/+ FmtLenSlack

TestChars ==
    {"A", "H", "I", "J", "N", "O", "P", "Q", "R", "Z", "0", "9",
     "a", "i", "o", "q", "z", "-", " ", SharpS, LongS, DotlessI}

\* The first len characters of VinA repeated.
Padded(len) == [i \in 1..len |-> VinA[((i - 1) % Len(VinA)) + 1]]

\* Strings of each length with their first and last characters replaced.
FormatInputs ==
    {<<>>} \cup
    UNION { { [Padded(len) EXCEPT ![1] = c1, ![len] = c2] :
                c1 \in TestChars, c2 \in TestChars } :
            len \in (VinLength - FmtLenSlack)..(VinLength + FmtLenSlack) }

FmtInit ==
    /\ fmtInput \in FormatInputs
    /\ fmtDone = FALSE
    /\ fmtResult = FALSE

Validate ==
    /\ ~fmtDone
    /\ fmtDone' = TRUE
    /\ fmtResult' = isValidVinFormat(fmtInput)
    /\ UNCHANGED fmtInput

FormatInit == VinInit /\ FmtInit /\ ScannerIdle /\ AdminIdle /\ SynthIdle /\ ExtIdle

FormatNext == Validate /\ UNCHANGED <<vinVars, scanVars, adminVars, synth, extVars>>

FormatSpec == FormatInit /\ [][FormatNext]_vars

\* The Scanner component alone.
ScannerInit == VinInit /\ FmtIdle /\ ScannerIdle /\ AdminIdle /\ SynthIdle /\ ExtIdle

notScanner == <<vinVars, fmtVars, adminVars, synth, extVars>>

ScannerNext ==
    \/ Open /\ UNCHANGED notScanner
    \/ Close /\ UNCHANGED notScanner
    \/ Unmount /\ UNCHANGED notScanner
    \/ \E k \in StartIds : GetUserMediaResolves(k) /\ UNCHANGED notScanner
    \/ \E k \in StartIds : GetUserMediaRejects(k) /\ UNCHANGED notScanner
    \/ \E k \in StartIds : PlayResolves(k) /\ UNCHANGED notScanner
    \/ \E k \in StartIds : PlayRejects(k) /\ UNCHANGED notScanner
    \/ \E t \in scanner.intervals : scanFrame(t) /\ UNCHANGED notScanner
    \/ DemoScan /\ UNCHANGED notScanner
    \/ EnterManually /\ UNCHANGED notScanner
    \/ UseCamera /\ UNCHANGED notScanner
    \/ \E manualInput \in ManualInputs :
          handleManualSubmit(manualInput) /\ UNCHANGED notScanner
    \/ retryCamera /\ UNCHANGED notScanner

ScannerSpec == ScannerInit /\ [][ScannerNext]_vars

\* The frame heuristics alone, run on one frame with given random draws.
SynthInit == VinInit /\ FmtIdle /\ ScannerIdle /\ AdminIdle /\ synth \in SynthInputs /\ ExtIdle

notSynth == <<vinVars, fmtVars, scanVars, adminVars, extVars>>

SynthNext ==
    \/ detectBarcodePatterns /\ UNCHANGED notSynth
    \/ detectVinPatterns /\ UNCHANGED notSynth

SynthSpec == SynthInit /\ [][SynthNext]_vars

\* The admin routes alone.
AdminInit == VinInit /\ FmtIdle /\ ScannerIdle /\ AdminIdle /\ SynthIdle /\ ExtIdle

notAdmin == <<vinVars, fmtVars, scanVars, synth, extVars>>

AdminNext ==
    \/ \E q \in Requests : AdminRequest(q) /\ UNCHANGED notAdmin
    \/ \E q \in Requests : AdminCheck(q) /\ UNCHANGED notAdmin
    \/ \E q \in Requests : AdminAct(q) /\ UNCHANGED notAdmin

AdminSpec == AdminInit /\ [][AdminNext]_vars

\* Overlapping decodeVin calls while nothing is evicted.
OverlapInit == VinInit /\ FmtIdle /\ ScannerIdle /\ AdminIdle /\ SynthIdle /\ ExtIdle

notVin == <<fmtVars, scanVars, adminVars, synth, extVars>>

OverlapNext ==
    \/ \E p \in Calls : Call(p) /\ UNCHANGED notVin
    \/ \E p \in Calls : BackendFetchThrows(p) /\ UNCHANGED notVin
    \/ \E p \in Calls : BackendHandle(p) /\ UNCHANGED notVin
    \/ \E p \in Calls : BackendUpstream(p) /\ UNCHANGED notVin
    \/ \E p \in Calls : NhtsaRespond(p) /\ UNCHANGED notVin

OverlapSpec == OverlapInit /\ [][OverlapNext]_vars

\* decodeVin calls while the cache holds the record of another VIN, decoded
\* before and kept for the session.
OtherVinInfo == NhtsaVehicleInfo(Normalized[VinB], DataFull)

FrameInit ==
    /\ cache = MapSet(EmptyMap, Normalized[VinB], OtherVinInfo)
    /\ timers = {}
    /\ age = [k \in Keys |-> 0]
    /\ kv = EmptyMap
    /\ call = [p \in Calls |-> IdleCall]
    /\ FmtIdle /\ ScannerIdle /\ AdminIdle /\ SynthIdle /\ ExtIdle

FrameNext ==
    \/ \E p \in Calls : Call(p) /\ UNCHANGED notVin
    \/ \E p \in Calls : BackendFetchThrows(p) /\ UNCHANGED notVin
    \/ \E p \in Calls : BackendHandle(p) /\ UNCHANGED notVin
    \/ \E p \in Calls : BackendUpstream(p) /\ UNCHANGED notVin
    \/ \E p \in Calls : NhtsaRespond(p) /\ UNCHANGED notVin
    \/ \E t \in timers : TimerFire(t) /\ UNCHANGED notVin
    \/ Tick /\ UNCHANGED notVin

FrameSpec == FrameInit /\ [][FrameNext]_vars

\* The backend decode route alone.
BackendInit == VinInit /\ FmtIdle /\ ScannerIdle /\ AdminIdle /\ SynthIdle /\ ExtIdle

notBackend ==
    <<cache, timers, age, call, fmtVars, scanVars, adminVars, synth, screen, fuel>>

BackendNext ==
    \/ DecodeRequest /\ UNCHANGED notBackend
    \/ DecodeUpstream /\ UNCHANGED notBackend
    \/ MinutesPass /\ UNCHANGED notBackend

BackendSpec == BackendInit /\ [][BackendNext]_vars

\* The VehicleIdentification component alone.
ScreenInit == VinInit /\ FmtIdle /\ ScannerIdle /\ AdminIdle /\ SynthIdle /\ ExtIdle

notScreen == <<vinVars, fmtVars, scanVars, adminVars, synth, srv, fuel>>

ScreenNext ==
    \/ \E v \in VinFieldInputs : SetVin(v) /\ UNCHANGED notScreen
    \/ SessionResolves /\ UNCHANGED notScreen
    \/ \E d \in DecodeIds : DecodeResolves(d) /\ UNCHANGED notScreen
    \/ \E d \in DecodeIds : DecodeRejects(d) /\ UNCHANGED notScreen

ScreenSpec == ScreenInit /\ [][ScreenNext]_vars

\* The fuel-entry routes alone.
FuelInit == VinInit /\ FmtIdle /\ ScannerIdle /\ AdminIdle /\ SynthIdle /\ ExtIdle

notFuel == <<vinVars, fmtVars, scanVars, reqs, synth, srv, screen>>

FuelNext ==
    \/ \E q \in FuelRequests : CreateFuelEntry(q) /\ UNCHANGED notFuel
    \/ \E q \in FuelRequests : FuelEntrySet(q) /\ UNCHANGED notFuel
    \/ \E q \in FuelRequests : FuelListGet(q) /\ UNCHANGED notFuel
    \/ \E q \in FuelRequests : FuelListSet(q) /\ UNCHANGED notFuel
    \/ GetFuelEntries /\ UNCHANGED notFuel

FuelSpec == FuelInit /\ [][FuelNext]_vars

(***************************************************************************)
(* Properties                                                              *)
(***************************************************************************)
\* The VIN alphabet: A-Z and 0-9 without I, O and Q.
VinAlphabet == (Range(UpperLetters) \cup Range(DigitChars)) \ {"I", "O", "Q"}

MatchesVinGrammar(u) == Len(u) = 17 /\ \A i \in 1..Len(u) : u[i] \in VinAlphabet

GrammarOk == [v \in VinInputs |-> MatchesVinGrammar(toUpperCase(v))]

NonEmptyString(x) == x \notin {"", Null, Undefined}

\* Call p starts at this step: decodeVin is invoked.
DecodeCalled(p) ==
    /\ call[p].pc \in {"idle", "done"}
    /\ call'[p].pc # "idle"
    /\ call'[p] # call[p]

\* Call p settles at this step.
DecodeSettles(p) ==
    /\ call'[p].pc = "done"
    /\ call'[p] # call[p]

\* The backend request of call c ended in failure: rejected or non-2xx.
BackendFailed(c) == c.backendResp # 0 /\ ~(200 <= c.backendResp /\ c.backendResp <= 299)

\* The step is clearCache().
IsClearCache == cache' = EmptyMap /\ timers' = timers /\ call' = call /\ kv' = kv

\* C1: a decodeVin call whose upper-cased VIN has a record in the client cache
\* (valid or not) settles at once with that record, having issued no request to
\* the backend proxy and none to the public registry.
C1_CacheHitNoNetwork ==
    [][\A p \in Calls :
         (/\ DecodeCalled(p)
          /\ GrammarOk[call'[p].vin]
          /\ MapHas(cache, Normalized[call'[p].vin]))
         => /\ call'[p].pc = "done"
            /\ call'[p].outcome = "resolved"
            /\ call'[p].result = <<cache[Normalized[call'[p].vin]]>>
            /\ call'[p].backendReqs = 0
            /\ call'[p].nhtsaReqs = 0]_vars

\* A call with a token was answered from the cache with a failure record.
C1_Witness ==
    \E p \in Calls :
        /\ call[p].pc = "done"
        /\ GrammarOk[call[p].vin]
        /\ call[p].token = ValidToken
        /\ call[p].backendReqs = 0 /\ call[p].nhtsaReqs = 0
        /\ call[p].outcome = "resolved"
        /\ ~call[p].result[1].valid

\* C2: every settled decodeVin call has resolved to a record, never rejected; when
\* every network path it tried failed the record has valid = false and a
\* non-empty error.
C2_AlwaysResolves ==
    \A p \in Calls :
        call[p].pc = "done" =>
            /\ call[p].outcome = "resolved"
            /\ Len(call[p].result) = 1
            /\ (call[p].nhtsaResp # <<>> /\ call[p].nhtsaResp[1].kind # "ok")
                   => /\ ~call[p].result[1].valid
                      /\ NonEmptyString(call[p].result[1].error)

\* C3: a valid = false record of the client cache is removed by no eviction
\* before its retention bound has elapsed, and is absent once the bound has.
C3_FailureRecordsExpireOnTime ==
    [][/\ \A k \in DOMAIN cache :
            (~cache[k].valid /\ ~MapHas(cache', k) /\ ~IsClearCache)
                => age[k] >= RetentionMinutes
       /\ \A k \in DOMAIN cache' :
            ~cache'[k].valid => age'[k] <= RetentionMinutes]_vars

\* C4: a key of the client cache that holds a valid = true record holds one
\* until clearCache is called.
C4_ValidRecordsStay ==
    [][\A k \in DOMAIN cache :
         (cache[k].valid /\ ~IsClearCache)
             => (MapHas(cache', k) /\ cache'[k].valid)]_vars

\* C5: when the backend request of a call made with a token fails, the call has
\* issued one request to the public registry, and when the registry answers that
\* request with a body the call resolves to the record built from this body.
C5_BackendFailureFallsBack ==
    \A p \in Calls :
        BackendFailed(call[p]) =>
            /\ call[p].nhtsaReqs = 1
            /\ \/ call[p].pc = "nhtsaFallback"
               \/ /\ call[p].pc = "done"
                  /\ call[p].nhtsaResp # <<>>
                  /\ call[p].nhtsaResp[1].kind = "ok" =>
                        /\ call[p].outcome = "resolved"
                        /\ call[p].result =
                             <<NhtsaVehicleInfo(Normalized[call[p].vin],
                                                call[p].nhtsaResp[1].data)>>

\* The backend failed, the registry answered and the call returned a valid record.
C5_Witness ==
    \E p \in Calls :
        /\ call[p].pc = "done"
        /\ BackendFailed(call[p])
        /\ call[p].nhtsaResp # <<>>
        /\ call[p].nhtsaResp[1].kind = "ok"
        /\ call[p].outcome = "resolved"
        /\ call[p].result[1].valid

\* C6: a decodeVin call made without an access token never issues a request to
\* the backend proxy; it issues at most one request, to the public registry.
C6_NoTokenNoBackend ==
    \A p \in Calls :
        ~NonEmptyString(call[p].token) =>
            /\ call[p].backendReqs = 0
            /\ call[p].backendResp = 0
            /\ call[p].pc \notin {"backend", "upstream", "nhtsaFallback"}
            /\ call[p].nhtsaReqs <= 1

\* A call without a token went to the public registry and settled.
C6_Witness ==
    \E p \in Calls :
        /\ call[p].pc = "done"
        /\ call[p].token = Undefined
        /\ call[p].nhtsaReqs = 1
        /\ call[p].nhtsaResp # <<>>

\* C7: every record a decodeVin call resolved to has valid = true exactly when
\* its year, make and model are all non-empty strings.
C7_ValidIffYearMakeModel ==
    \A p \in Calls :
        (call[p].pc = "done" /\ call[p].outcome = "resolved") =>
            LET rec == call[p].result[1]
            IN  rec.valid <=> (/\ NonEmptyString(rec.year)
                               /\ NonEmptyString(rec.make)
                               /\ NonEmptyString(rec.model))

\* A call got from the registry a body with year and make but no model.
C7_Witness ==
    \E p \in Calls :
        /\ call[p].pc = "done"
        /\ call[p].outcome = "resolved"
        /\ call[p].nhtsaResp = <<[kind |-> "ok", data |-> DataNoModel]>>
        /\ call[p].result[1].year = "2010"
        /\ ~call[p].result[1].valid

\* C8: a decodeVin call that missed the cache settles by resolving to a record
\* that the client cache holds under the upper-cased VIN at that moment.
C8_ReturnedRecordIsCached ==
    [][\A p \in Calls :
         (DecodeSettles(p) /\ call'[p].backendReqs + call'[p].nhtsaReqs > 0)
         => /\ call'[p].outcome = "resolved"
            /\ MapHas(cache', Normalized[call'[p].vin])
            /\ call'[p].result = <<cache'[Normalized[call'[p].vin]]>>]_vars

\* C9: isValidVinFormat(s) is true exactly when the upper-cased s is 17
\* characters of A-Z, 0-9 without I, O, Q.
C9_VinGrammarExact ==
    fmtDone => (fmtResult <=> MatchesVinGrammar(toUpperCase(fmtInput)))

\* A 17-character input with a lower-case letter was accepted.
C9_Witness ==
    /\ fmtDone
    /\ fmtResult
    /\ Len(fmtInput) = 17
    /\ fmtInput # toUpperCase(fmtInput)

\* C10: decodeVin of a string that fails the VIN grammar settles at once with a
\* valid = false record whose error is 'Invalid VIN format', issues no request
\* and leaves the client cache (and its timers) unchanged.
C10_InvalidFormatRejected ==
    [][\A p \in Calls :
         (DecodeCalled(p) /\ ~GrammarOk[call'[p].vin])
         => /\ call'[p].pc = "done"
            /\ call'[p].outcome = "resolved"
            /\ Len(call'[p].result) = 1
            /\ ~call'[p].result[1].valid
            /\ call'[p].result[1].error = "Invalid VIN format"
            /\ call'[p].backendReqs = 0
            /\ call'[p].nhtsaReqs = 0
            /\ cache' = cache
            /\ timers' = timers
            /\ kv' = kv]_vars

\* A malformed VIN was decoded while the cache held a record.
C10_Witness ==
    \E p \in Calls :
        /\ call[p].pc = "done"
        /\ call[p].vin = VinWithO
        /\ call[p].result[1].error = "Invalid VIN format"
        /\ cache # EmptyMap


(***************************************************************************)
(* Properties of the Scanner                                               *)
(***************************************************************************)
\* The barcode grammar: 8 to 14 decimal digits.
MatchesBarcodeGrammar(u) ==
    /\ 8 <= Len(u) /\ Len(u) <= 14
    /\ \A i \in 1..Len(u) : u[i] \in Range(DigitChars)

\* Both grammars on every payload (evaluated once).
PayloadGrammarOk ==
    [d \in Payloads |-> [vin |-> MatchesVinGrammar(d), barcode |-> MatchesBarcodeGrammar(d)]]

\* The capture session is closed: isOpen is false or the component is unmounted.
SessionClosed == ~scanner.mounted \/ ~scanner.isOpen

\* C11: within one capture session (from its opening to its closing) at most
\* one result is passed to onScan: after the first valid candidate no further
\* candidate delivered to handleScanResult is forwarded.
C11_AtMostOneResultPerSession == scanLog.onScanCalls <= 1

\* C12: a candidate detected by a sampling tick whose payload equals the
\* payload detected immediately before it in the session is not handed to
\* handleScanResult.
C12_RepeatedCandidateIgnored == ~scanLog.handedRepeat

\* C13: every result passed to onScan satisfies the grammar of its type: a
\* 'vin' result is 17 characters of A-Z/0-9 without I, O, Q, a 'barcode'
\* result is 8 to 14 decimal digits; for sampling ticks, Demo Scan and manual
\* entry alike.
C13_ForwardedResultsMatchGrammar ==
    scanLog.lastOnScan # <<>> =>
        LET r == scanLog.lastOnScan[1]
        IN  /\ r.type \in {"vin", "barcode"}
            /\ r.type = "vin" => PayloadGrammarOk[r.data].vin
            /\ r.type = "barcode" => PayloadGrammarOk[r.data].barcode

\* A manual entry typed in lower case with blanks around it was passed to
\* onScan as a 'vin' result.
C13_Witness ==
    /\ scanLog.lastOnScan # <<>>
    /\ scanLog.lastOnScan[1].from = "manual"
    /\ scanLog.lastOnScan[1].type = "vin"
    /\ scanLog.lastOnScan[1].data = VinA

\* C14: whenever the capture session is closed (isOpen false, or the component
\* unmounted) no camera stream obtained from getUserMedia is left running,
\* whatever the interleaving of the close with a startCamera call that is
\* awaiting getUserMedia.
C14_ClosedSessionHasNoLiveStream == SessionClosed => ~AnyLive(scanner)

\* C17: when the dispatcher hands a valid candidate to onScan the sampling loop
\* has already been stopped: no camera track is live and no sampling interval
\* is active at the moment of the call.
C17_StoppedBeforeOnScan ==
    (scanLog.lastOnScan # <<>> /\ scanLog.lastOnScan[1].from \in {"tick", "demo"}) =>
        /\ ~scanLog.lastOnScan[1].samplingAtEmit
        /\ ~scanLog.lastOnScan[1].liveAtEmit

\* C18: at every moment at most one sampling interval is active, for any
\* sequence of camera starts, retries, switches to and from manual entry and
\* closes.
C18_AtMostOneSamplingTimer == ~SessionClosed => Cardinality(scanner.intervals) <= 1

\* C19: a sampling interval is active only while a capture session is open:
\* none is active once the session has closed, also when it closed while
\* startCamera was awaiting the camera.
C19_SamplingOnlyWhileOpen == scanner.intervals # {} => ~SessionClosed

\* C20: after handleScanResult has forwarded a valid candidate scanFrame is not
\* invoked again until the session is reopened.
C20_NoScanFrameAfterForward == ~scanLog.scanFrameAfterForward

(***************************************************************************)
(* Properties of the frame heuristics                                      *)
(***************************************************************************)
\* C16: the payload a frame heuristic synthesizes when its test fires
\* satisfies the grammar of its kind: detectVinPatterns returns a string of
\* the 17-character VIN grammar, detectBarcodePatterns 8 to 14 decimal digits.
C16_SynthesizedPayloadsMatchGrammar ==
    (synth.done /\ synth.fired) =>
        /\ synth.kind = "vin" => MatchesVinGrammar(synth.payload)
        /\ synth.kind = "barcode" => MatchesBarcodeGrammar(synth.payload)

(***************************************************************************)
(* Properties of the admin routes                                          *)
(***************************************************************************)
\* The request was made without a bearer token that getUser accepts.
NoValidToken(r) == r.token \notin DOMAIN TokenUser

\* The request passed requireAuth and looked up (or tried to look up) the
\* profile of a caller whose stored role was not 'admin'.
NotAdminCaller(r) == ~NoValidToken(r) /\ r.roleStored # "admin"

\* C15 as stated: an admin route answers 403 and changes nothing unless the
\* stored profile of the authenticated caller has role 'admin'; without a
\* valid bearer token it answers 401 and changes nothing.
C15_AdminRoutesAnswer403 ==
    \A q \in Requests :
        reqs[q].pc = "done" =>
            /\ NoValidToken(reqs[q]) => reqs[q].status = 401 /\ ~reqs[q].wrote
            /\ NotAdminCaller(reqs[q]) => reqs[q].status = 403 /\ ~reqs[q].wrote

\* C15 amended: an admin route changes nothing unless the stored profile the
\* request read has role 'admin'; it then answers 403, or 500 when reading
\* the profile failed; without a valid bearer token it answers 401 and
\* changes nothing.
C15_AdminRoutesRefuseNonAdmins ==
    \A q \in Requests :
        /\ (reqs[q].pc # "idle" /\ NoValidToken(reqs[q])) =>
              reqs[q].pc = "done" /\ reqs[q].status = 401 /\ ~reqs[q].wrote
        /\ (reqs[q].pc \in {"admin", "done"} /\ NotAdminCaller(reqs[q])) =>
              reqs[q].pc = "done" /\ reqs[q].status \in {403, 500} /\ ~reqs[q].wrote

\* A porter's request to an admin route was answered 403.
C15_Witness ==
    \E q \in Requests :
        /\ reqs[q].pc = "done"
        /\ reqs[q].token = "jwt-porter"
        /\ reqs[q].roleStored = "porter"
        /\ reqs[q].route = "DELETE user"
        /\ reqs[q].status = 403

(***************************************************************************)
(* Properties of the sampling tick and of the result types                 *)
(***************************************************************************)
\* In this step detectTextInImage handed on a candidate that fails the
\* grammar of its kind.
InvalidCandidateHanded ==
    /\ scanLog'.lastHanded # <<>>
    /\ scanLog'.lastHanded # scanLog.lastHanded
    /\ LET r == scanLog'.lastHanded[1]
       IN  \/ r.type = "vin" /\ ~PayloadGrammarOk[r.data].vin
           \/ r.type = "barcode" /\ ~PayloadGrammarOk[r.data].barcode

\* C21: a candidate that fails the grammar check of its kind is dropped
\* silently: onScan is not called, no error message is set, the camera is not
\* stopped, and the sampling loop keeps ticking.
C21_InvalidCandidateDropped ==
    [][InvalidCandidateHanded =>
          /\ scanLog'.onScanCalls = scanLog.onScanCalls
          /\ scanLog'.lastOnScan = scanLog.lastOnScan
          /\ scanner'.error = scanner.error
          /\ scanner'.permissionDenied = scanner.permissionDenied
          /\ scanner'.tracks = scanner.tracks
          /\ scanner'.stream = scanner.stream
          /\ scanner'.isScanning = scanner.isScanning
          /\ scanner'.intervals = scanner.intervals
          /\ scanner'.scanIntervalRef = scanner.scanIntervalRef]_vars

\* The VIN heuristic's 15-character candidate was handed on and dropped: no
\* result was passed on, the camera is live and the interval still active.
C21_Witness ==
    /\ scanLog.lastHanded # <<>>
    /\ scanLog.lastHanded[1].source = "vin"
    /\ ~PayloadGrammarOk[scanLog.lastHanded[1].data].vin
    /\ scanLog.onScanCalls = 0
    /\ ~scanner.error
    /\ AnyLive(scanner)
    /\ scanner.isScanning
    /\ scanner.intervals # {}

\* C22: on a sampling tick the random demonstration candidate is produced only
\* when neither the barcode heuristic nor the VIN-region heuristic fired on
\* that tick, whatever the scan mode and whether or not the heuristic's
\* candidate was a duplicate.
C22_RandomOnlyWhenNoHeuristicFired ==
    (scanLog.lastHanded # <<>> /\ scanLog.lastHanded[1].source = "random") =>
        /\ ~scanLog.lastHanded[1].barcodeFired
        /\ ~scanLog.lastHanded[1].vinFired

\* C27: when the Scanner runs in mode 'vin' or mode 'barcode', every result
\* passed to onScan has that same type, whichever path produced it (barcode
\* heuristic, VIN heuristic, random fallback, Demo Scan, manual entry).
C27_ResultTypeMatchesMode ==
    (~SessionClosed /\ scanLog.lastOnScan # <<>> /\ scanner.mode # "auto") =>
        scanLog.lastOnScan[1].type = scanner.mode


(***************************************************************************)
(* Properties of the decode route's answers and of the error messages      *)
(***************************************************************************)
\* C24: whenever the backend decode endpoint returns a record produced by a
\* failed upstream registry call (error 'Failed to decode VIN via NHTSA API')
\* it answers with a status of 400 or above, on the request that hit the
\* failure and on every later request served from its store, so that a client
\* holding an access token falls back to the public registry and never
\* returns that record as the backend's answer.
C24_RegistryFailureAnswersError ==
    \A p \in Calls :
        (/\ call[p].pc = "done"
         /\ call[p].backendReqs = 1
         /\ call[p].outcome = "resolved"
         /\ call[p].result[1].error = MsgBackendNhtsa) =>
            call[p].backendResp >= 400

\* year, make and model are all present in a registry body.
HasYearMakeModel(data) ==
    \A name \in {"Model Year", "Make", "Model"} :
        \E i \in DOMAIN ResultsOf(data) :
            /\ ResultsOf(data)[i].Variable = name
            /\ ResultsOf(data)[i].Value \notin {"", Null, Undefined}

\* C26: when the registry responds successfully but its response lacks year,
\* make or model, the record decodeVin returns has valid = false and error
\* exactly 'Vehicle information not found for this VIN', on the direct
\* public-registry path as on the backend-proxy path; when the registry call
\* itself fails, the error is a different message.
C26_NotFoundMessage ==
    \A p \in Calls :
        (/\ call[p].pc = "done"
         /\ call[p].outcome = "resolved"
         /\ call[p].nhtsaResp # <<>>) =>
            LET r == call[p].nhtsaResp[1]
                rec == call[p].result[1]
            IN  /\ (r.kind = "ok" /\ ~HasYearMakeModel(r.data)) =>
                      /\ rec.valid = FALSE
                      /\ rec.error = "Vehicle information not found for this VIN"
                /\ r.kind # "ok" =>
                      rec.error # "Vehicle information not found for this VIN"


(***************************************************************************)
(* Properties of the client cache under overlapping calls                  *)
(***************************************************************************)
\* The call found no cache entry and issued a request.
MissedCache(c) == c.backendReqs + c.nhtsaReqs > 0

\* C23: when two decodeVin calls for the same uncached VIN overlap and both
\* have finished (nothing being evicted meanwhile), the cache holds for that
\* VIN exactly the record written by whichever call wrote last: never a
\* mixture and never no entry.  Stated at the step in which the second of the
\* two calls finishes: that call writes last when it resolves, otherwise the
\* record of the call that finished before it is the last one written.
C23_LastWriterWins ==
    [][\A p, q \in Calls :
          (/\ p # q
           /\ call[q].pc = "done" /\ MissedCache(call[q])
           /\ call[p].pc \notin {"idle", "done"} /\ call'[p].pc = "done"
           /\ Normalized[call[p].vin] = Normalized[call[q].vin]) =>
              LET key  == Normalized[call[p].vin]
                  last == IF call'[p].outcome = "resolved"
                          THEN call'[p].result ELSE call[q].result
              IN  /\ last # <<>>
                  /\ MapHas(cache', key)
                  /\ cache'[key] = last[1]]_vars

\* The keys whose cache entry a step adds, replaces or removes.
ChangedKeys ==
    {k \in Keys : \/ MapHas(cache, k) # MapHas(cache', k)
                  \/ MapHas(cache, k) /\ MapHas(cache', k) /\ cache[k] # cache'[k]}

\* The upper-cased VINs of the decodeVin calls that take a step, and the keys
\* of the eviction timers of decodeVin that fire in it.
TouchedKeys ==
    {Normalized[call[p].vin] :
        p \in {x \in Calls : call'[x] # call[x] /\ call[x].pc \notin {"idle", "done"}}}
    \cup {Normalized[call'[p].vin] :
        p \in {x \in Calls : call'[x] # call[x] /\ call'[x].pc # "idle"}}
    \cup {t.key : t \in {x \in timers : x.remaining = 0 /\ x \notin timers'}}

\* C30: a decodeVin(X) call adds, replaces or removes no cache entry other
\* than the one keyed by the upper-cased X: the entries of every other VIN are
\* the same after each of its steps as before.
C30_OnlyOwnKeyTouched == [][ChangedKeys \subseteq TouchedKeys]_vars

\* A call for another VIN missed the cache and stored its record, and the
\* record that was in the cache before is still there.
C30_Witness ==
    /\ MapHas(cache, Normalized[VinB])
    /\ cache[Normalized[VinB]] = OtherVinInfo
    /\ MapHas(cache, Normalized[VinA])
    /\ \E p \in Calls :
          /\ call[p].pc = "done"
          /\ call[p].outcome = "resolved"
          /\ MissedCache(call[p])
          /\ Normalized[call[p].vin] = VinA

(***************************************************************************)
(* Properties of the backend store's failure records                       *)
(***************************************************************************)
\* C25: a failure record stored by the backend decode endpoint is served from
\* its store for at most 30 minutes: a request for that VIN arriving later
\* calls the upstream registry again instead of returning the stored failure.
C25_StoredFailureExpires ==
    (/\ srv.req.pc = "done"
     /\ srv.req.fromStore
     /\ srv.req.body[1].error = MsgBackendNhtsa) =>
        srv.req.storedMinutes <= BackendRetentionMinutes

(***************************************************************************)
(* Properties of the vehicle-identification screen                         *)
(***************************************************************************)
DecodeInFlight == \E d \in DecodeIds : screen.decodes[d].pc # "idle"

\* C28: once every decode the screen started has completed, the vehicle info
\* shown is the decode result for the VIN in the VIN field (none when the
\* field does not hold 17 characters), in whatever order overlapping decodes
\* complete; and the 'decoding' indicator is off only when no decode is in
\* flight.
C28_ShownInfoMatchesField ==
    /\ ~DecodeInFlight =>
          IF Len(screen.vin) = VinLength
          THEN /\ screen.vehicleInfo # <<>>
               /\ screen.vehicleInfo[1].vin = Normalized[screen.vin]
          ELSE screen.vehicleInfo = <<>>
    /\ ~screen.isDecodingVin => ~DecodeInFlight

(***************************************************************************)
(* Properties of the fuel-entry routes                                     *)
(***************************************************************************)
\* C29: after any number of overlapping fuel-entry creation requests by the
\* same user have all returned successfully, the user's stored entry-id list
\* contains the id of every entry created, and a non-admin listing of the
\* user's fuel entries returns all of them.
C29_AllCreatedEntriesListed ==
    NoCreationInFlight =>
        \A q \in FuelRequests :
            (fuel.reqs[q].pc = "done" /\ fuel.reqs[q].status = 200) =>
                /\ fuel.reqs[q].id \in store.userEntries[fuel.reqs[q].user]
                /\ (/\ fuel.listing # <<>>
                    /\ fuel.listing[1].quiet
                    /\ ~fuel.listing[1].admin
                    /\ fuel.listing[1].user = fuel.reqs[q].user) =>
                       fuel.reqs[q].id \in fuel.listing[1].entries


=============================================================================
